---------------------------- MODULE Spec2Model ----------------------------
(***************************************************************************)
(* A model of the CI coordinator of this repository:                       *)
(*   ci_system/dispatcher.py   the dispatcher (request handlers, health    *)
(*                             monitor, redistributor, dispatch_tests)     *)
(*   ci_system/test_runner.py  the test runner                             *)
(*   ci_system/helpers.py      the request/response exchange               *)
(*                                                                         *)
(* Text on the wire is a sequence of one-character strings, so that the    *)
(* dispatcher's parsing (strip, COMMAND_REGEX, split, int) is computed on  *)
(* characters as the code computes it.  Replies are compared by the        *)
(* callers with string constants only and are kept as strings.             *)
(*                                                                         *)
(* Three specifications:                                                   *)
(*   Spec       the dispatcher as a TCP server: the peers at registered    *)
(*              addresses and the clients are the environment, and what    *)
(*              they send is an input                                      *)
(*   SysSpec    the dispatcher together with the repository's own runner   *)
(*              (test_runner.py) at every runner address                   *)
(*   FrameSpec  one results upload, over every payload and every split of  *)
(*              the upload into socket reads                               *)
(***************************************************************************)
EXTENDS Integers, Sequences, FiniteSets, TLC

(***************************************************************************)
(* Bounds of the model.                                                    *)
(***************************************************************************)
MaxPayload == 2

MaxRegistrations == 2

MaxChunks == 2

\* thread slots of the dispatcher's ThreadingMixIn server
NumHandlers == 2

\* connections that clients other than the runners hold at a time
MaxConnections == 1

\* requests one runner handles at a time
NumRunnerHandlers == 2

\* _execute_test_run threads of one runner alive at a time
MaxWorkers == 2

\* the largest --desired-count of the runner manager
MaxDesired == 3

\* runner processes the manager starts in one run
MaxSpawns == 3

(***************************************************************************)
(* Characters.                                                             *)
(***************************************************************************)
NL == "\n"

SP == " "

COLON == ":"

Whitespace == {SP, NL}

DigitChars == <<"0", "1", "2", "3", "4", "5", "6", "7", "8", "9">>

DigitSet == {DigitChars[i] : i \in 1..10}

Letters ==
    {"a", "b", "c", "d", "e", "f", "g", "h", "i", "j", "k", "l", "m", "n",
     "o", "p", "q", "r", "s", "t", "u", "v", "w", "x", "y", "z"}

\* the characters the regular expression class \w matches
WordChars == Letters \cup DigitSet \cup {"_"}

\* Python's None, as a value no text equals
None == <<"<None>">>

SetMin(S) == CHOOSE m \in S : \A n \in S : m <= n

(***************************************************************************)
(* Python string operations used by the handlers.                          *)
(***************************************************************************)
RECURSIVE lstrip(_)
lstrip(s) ==
    IF s # <<>> /\ Head(s) \in Whitespace THEN lstrip(Tail(s)) ELSE s

RECURSIVE rstrip(_)
rstrip(s) ==
    IF s # <<>> /\ s[Len(s)] \in Whitespace
    THEN rstrip(SubSeq(s, 1, Len(s) - 1))
    ELSE s

\* bytes.strip() / str.strip(): leading and trailing whitespace removed
strip(s) == rstrip(lstrip(s))

\* str.split(":", maxsplit): at most maxsplit cuts, from the left
RECURSIVE split(_, _)
split(s, maxsplit) ==
    LET idx == {i \in 1..Len(s) : s[i] = COLON}
    IN  IF maxsplit = 0 \/ idx = {}
        THEN <<s>>
        ELSE LET i == SetMin(idx)
             IN  <<SubSeq(s, 1, i - 1)>>
                     \o split(SubSeq(s, i + 1, Len(s)), maxsplit - 1)

\* str.split(":") without a limit
splitAll(s) == split(s, Len(s))

DigitVal(ch) == (CHOOSE i \in 1..10 : DigitChars[i] = ch) - 1

RECURSIVE DecVal(_)
DecVal(s) ==
    IF s = <<>> THEN 0
    ELSE 10 * DecVal(SubSeq(s, 1, Len(s) - 1)) + DigitVal(s[Len(s)])

\* int(text): surrounding whitespace and one sign are accepted, then
\* decimal digits; anything else raises ValueError (ok = FALSE)
int(s) ==
    LET t      == strip(s)
        signed == t # <<>> /\ Head(t) \in {"-", "+"}
        body   == IF signed THEN Tail(t) ELSE t
        valid  == body # <<>> /\ \A i \in 1..Len(body) : body[i] \in DigitSet
    IN  [ok    |-> valid,
         value |-> IF ~valid THEN 0
                   ELSE IF signed /\ Head(t) = "-" THEN 0 - DecVal(body)
                   ELSE DecVal(body)]

\* str(n) for a natural number
RECURSIVE str(_)
str(n) ==
    IF n < 10 THEN <<DigitChars[n + 1]>>
    ELSE str(n \div 10) \o <<DigitChars[(n % 10) + 1]>>

\* COMMAND_REGEX.match(raw) for the pattern (\w+)(:.+)* : group 1 is the
\* longest run of word characters at the start; group 2 is present when a
\* colon and at least one character other than a newline follow, and then
\* runs to the end of that line ('.' does not match a newline)
COMMAND_REGEX(raw) ==
    LET stops == {i \in 1..Len(raw) : raw[i] \notin WordChars}
        n     == IF stops = {} THEN Len(raw) ELSE SetMin(stops) - 1
        has2  == /\ n >= 1
                 /\ n + 2 <= Len(raw)
                 /\ raw[n + 1] = COLON
                 /\ raw[n + 2] # NL
        nls   == {i \in (n + 2)..Len(raw) : raw[i] = NL}
        e     == IF nls = {} THEN Len(raw) ELSE SetMin(nls) - 1
    IN  [matched  |-> n >= 1,
         command  |-> SubSeq(raw, 1, n),
         \* argument = match.group(2)[1:] if match.group(2) else None
         argument |-> IF has2 THEN SubSeq(raw, n + 2, e) ELSE None]


(***************************************************************************)
(* The model's universe.                                                   *)
(***************************************************************************)
\* commit ids the observers send
Commits == {<<"a">>, <<"b">>}

\* the addresses runners listen on: localhost with port 1 or 2
Host == <<"h">>

Ports == {1, 2}

Handlers == 1..NumHandlers

\* the redistributor thread, which also runs dispatch_tests
Redis == 0

DTThreads == Handlers \cup {Redis}

\* helpers.communicate raised (connection refused, reset)
CommError == "<communication error>"

NoRunner == [host |-> <<>>, port |-> 0, last_seen |-> 0]

\* the address of the runner that RunnerSpec follows thread by thread
RunnerPort == 1

\* thread slots of the runner's ThreadingMixIn server
RSlots == 1..NumRunnerHandlers

\* BUF_SIZE of DispatcherHandler: the most one recv returns
BUF_SIZE == 1024

VARIABLES
    registered_runners,   \* dispatcher.registered_runners: list of descriptors
    dispatched_commits,   \* dispatcher.dispatched_commits: dict, in insertion order
    pending_commits,      \* dispatcher.pending_commits: deque of commit ids
    result_files,         \* the files of TEST_RESULTS_DIR: name -> contents
    clock,                \* what time.time() returns next
    handlers,             \* one DispatcherHandler per connection slot
    dt,                   \* the dispatch_tests invocation of each thread
    checker,              \* the runner_checker thread
    redis,                \* the redistribute thread: commits drained, not yet re-dispatched
    reply,                \* what the step just taken sent to its client, "" when nothing
    sent,                 \* per connection: the payload a results upload was framed from
    runner_up,            \* per port: a process is listening there
    busy,                 \* per port: ThreadedTestRunner.busy
    worker,               \* per port: the runner's _execute_test_run thread
    rthreads,             \* the runner at RunnerPort thread by thread: its request
                          \* handlers and the count of _execute_test_run threads
    observer,             \* repo_observer.scan: its position, the .commit_id
                          \* file and whether it reaches the dispatcher
    server,               \* the dispatcher's server object: the dead flag and
                          \* which maintenance threads have returned
    manager               \* RunnerManager: the call of maintain_pool and the
                          \* handles in processes

dispVars == <<registered_runners, dispatched_commits, pending_commits,
              result_files, clock, handlers, dt>>

runnerVars == <<busy, worker, rthreads>>

vars == <<registered_runners, dispatched_commits, pending_commits,
          result_files, clock, handlers, dt, checker, redis, reply,
          sent, runner_up, busy, worker, rthreads, observer, server, manager>>

(***************************************************************************)
(* Python containers.                                                      *)
(***************************************************************************)
\* dict: a sequence of <<key, value>> in insertion order
DictKeys(d) == {d[i][1] : i \in 1..Len(d)}

DictGet(d, k) == (CHOOSE i \in 1..Len(d) : d[i][1] = k)

DictValue(d, k) == d[DictGet(d, k)][2]

\* an assignment that adds an entry even when the key is present
DictSet_append(d, k, v) == Append(d, <<k, v>>)

\* d[k] = v: an existing key keeps its place
DictSet(d, k, v) ==
    IF k \in DictKeys(d)
    THEN [d EXCEPT ![DictGet(d, k)] = <<k, v>>]
    ELSE Append(d, <<k, v>>)

\* del d[k]
DictDel(d, k) == SelectSeq(d, LAMBDA e : e[1] # k)

Elems(q) == {q[i] : i \in 1..Len(q)}

\* list.remove(x) / deque.remove(x): the first element equal to x goes;
\* the callers catch the ValueError of a missing x
RemoveFirst(q, x) ==
    IF x \notin Elems(q) THEN q
    ELSE LET i == SetMin({j \in 1..Len(q) : q[j] = x})
         IN  SubSeq(q, 1, i - 1) \o SubSeq(q, i + 1, Len(q))

\* the files of the result directory
FileWrite(files, name, text) ==
    [n \in DOMAIN files \cup {name} |-> IF n = name THEN text ELSE files[n]]

(***************************************************************************)
(* Initial state: dispatcher.py:25-27, test_runner.py:145.                 *)
(***************************************************************************)
\* nothing was sent by the step
Silence == [command |-> <<>>, argument |-> None, text |-> ""]

IdleHandler ==
    [pc |-> "idle", wire |-> <<>>, commit |-> <<>>, expected |-> 0,
     data |-> <<>>]

IdleDT == [pc |-> "off", commit |-> <<>>, avail |-> <<>>, runner |-> NoRunner]

IdleChecker == [pc |-> "sleep", todo |-> <<>>]

IdleWorker ==
    [pc |-> "none", commit |-> <<>>, results |-> <<>>, error |-> FALSE,
     conn |-> 0]

\* a request handler of the runner: waiting for a connection
IdleRunnerHandler == [pc |-> "idle", commit |-> <<>>]

\* the runner's threads after ThreadedTestRunner.__init__
IdleRunner ==
    [handler |-> [k \in RSlots |-> IdleRunnerHandler], running |-> 0]

\* the server object of serve: dead = False, both maintenance threads in
\* their loops
StartServer ==
    [dead |-> FALSE, checker_ended |-> FALSE, redistributor_ended |-> FALSE]

\* RunnerManager.__init__: no handles; main is about to call maintain_pool
StartManager ==
    [pc |-> "call", desired_count |-> 0, spawned |-> 0, processes |-> <<>>]

\* scan before its first cycle: no .commit_id file, the dispatcher in reach
StartObserver == [pc |-> "update", sentinel |-> None, reachable |-> TRUE]

\* the dispatcher as its module is loaded and its threads are started;
\* up says whether processes listen at the runner addresses
Start(up) ==
    /\ registered_runners = <<>>
    /\ dispatched_commits = <<>>
    /\ pending_commits = <<>>
    /\ result_files = <<>>
    /\ clock = 0
    /\ handlers = [h \in Handlers |-> IdleHandler]
    /\ dt = [t \in DTThreads |-> IdleDT]
    /\ checker = IdleChecker
    /\ redis = <<>>
    /\ reply = Silence
    /\ sent = [h \in Handlers |-> None]
    /\ runner_up = [p \in Ports |-> up]
    /\ busy = [p \in Ports |-> FALSE]
    /\ worker = [p \in Ports |-> IdleWorker]
    /\ rthreads = IdleRunner
    /\ observer = StartObserver
    /\ server = StartServer
    /\ manager = StartManager

Init == Start(TRUE)

(***************************************************************************)
(* DispatcherHandler: dispatcher.py:34-150.                                *)
(***************************************************************************)
\* self.request.sendall(text.encode())
Reply(command, argument, text) ==
    reply' = [command |-> command, argument |-> argument, text |-> text]

NoReply == reply' = Silence

CmdStatus == <<"s", "t", "a", "t", "u", "s">>

CmdRegister == <<"r", "e", "g", "i", "s", "t", "e", "r">>

CmdDispatch == <<"d", "i", "s", "p", "a", "t", "c", "h">>

CmdResults == <<"r", "e", "s", "u", "l", "t", "s">>

\* _handle_register without the test for a descriptor already present
_handle_register_unchecked(h, argument) ==
    IF argument = None \/ argument = <<>>
    THEN /\ Reply(CmdRegister, argument, "Missing runner info")
         /\ UNCHANGED <<registered_runners, clock>>
    ELSE LET parts == splitAll(argument)
             port  == int(parts[2])
         IN  IF Len(parts) # 2 \/ ~port.ok
             THEN /\ Reply(CmdRegister, argument, "Invalid registration: ...")
                  /\ UNCHANGED <<registered_runners, clock>>
             ELSE /\ clock' = clock + 1
                  /\ registered_runners' =
                         Append(registered_runners,
                                [host |-> parts[1], port |-> port.value,
                                 last_seen |-> clock])
                  /\ Reply(CmdRegister, argument, "OK")

\* _handle_register(argument)
_handle_register(h, argument) ==
    IF argument = None \/ argument = <<>>
    THEN /\ Reply(CmdRegister, argument, "Missing runner info")
         /\ UNCHANGED <<registered_runners, clock>>
    ELSE LET parts == splitAll(argument)
             port  == int(parts[2])
         IN  IF Len(parts) # 2 \/ ~port.ok
             THEN \* host, port_str = ... or int(port_str) raised
                  /\ Reply(CmdRegister, argument, "Invalid registration: ...")
                  /\ UNCHANGED <<registered_runners, clock>>
             ELSE LET runner == [host |-> parts[1], port |-> port.value,
                                 last_seen |-> clock]
                  IN  /\ clock' = clock + 1
                      /\ IF \A i \in 1..Len(registered_runners) :
                                ~(/\ registered_runners[i].host = parts[1]
                                  /\ registered_runners[i].port = port.value)
                         THEN /\ registered_runners' =
                                     Append(registered_runners, runner)
                              /\ Reply(CmdRegister, argument, "OK")
                         ELSE /\ Reply(CmdRegister, argument, "Runner already registered")
                              /\ UNCHANGED registered_runners

\* _handle_dispatch without the return after "No runners available"
_handle_dispatch_no_return(h, argument) ==
    LET commit_id == IF argument = None \/ argument = <<>> THEN <<>>
                     ELSE argument
    IN  /\ Reply(CmdDispatch, argument,
                 IF registered_runners = <<>> THEN "No runners available"
                 ELSE "OK")
        /\ handlers' = [handlers EXCEPT ![h].pc = "dispatch_tests"]
        /\ dt' = [dt EXCEPT ![h] = [IdleDT EXCEPT !.pc = "snapshot",
                                                 !.commit = commit_id]]

\* _handle_dispatch(argument); on OK the handler thread goes on into
\* dispatch_tests(commit_id)
_handle_dispatch(h, argument) ==
    LET commit_id == IF argument = None \/ argument = <<>> THEN <<>>
                     ELSE argument
    IN  IF registered_runners = <<>>
        THEN /\ Reply(CmdDispatch, argument, "No runners available")
             /\ UNCHANGED <<handlers, dt>>
        ELSE /\ Reply(CmdDispatch, argument, "OK")
             /\ handlers' = [handlers EXCEPT ![h].pc = "dispatch_tests"]
             /\ dt' = [dt EXCEPT ![h] = [IdleDT EXCEPT !.pc = "snapshot",
                                                      !.commit = commit_id]]

\* _handle_results(argument) up to the receive loop; rest is what the
\* connection still delivers
_handle_results(h, argument, rest) ==
    IF argument = None \/ argument = <<>>
    THEN Reply(CmdResults, argument, "Missing results data") /\ UNCHANGED handlers
    ELSE \E parts \in {split(argument, 2)} :
             IF Len(parts) < 3
             THEN Reply(CmdResults, argument, "Invalid results format") /\ UNCHANGED handlers
             ELSE \E expected_length \in {int(parts[2])} :
                  IF ~expected_length.ok
                  THEN Reply(CmdResults, argument, "Invalid length in results") /\ UNCHANGED handlers
                  ELSE /\ handlers' = [handlers EXCEPT ![h] =
                             [pc       |-> IF Len(parts[3]) < expected_length.value
                                           THEN "results_recv" ELSE "results_write",
                              wire     |-> rest,
                              commit   |-> parts[1],
                              expected |-> expected_length.value,
                              data     |-> parts[3]]]
                       /\ NoReply

\* recv returned b"": the peer has closed the connection
EOF == <<>>

\* handle(): a connection is served by an idle slot; wire is what the peer
\* sends, cut into the pieces the recv calls return; a last piece EOF says
\* that the peer then closes, and no such piece that it keeps the
\* connection open and waits
handle(h, wire) ==
    /\ handlers[h].pc = "idle"
    /\ wire # <<>>
    /\ \A i \in 1..Len(wire) :
          /\ Len(wire[i]) <= BUF_SIZE
          /\ wire[i] = EOF => i = Len(wire)
    /\ \E match \in {COMMAND_REGEX(strip(Head(wire)))} :
           IF ~match.matched
           THEN /\ Reply(<<>>, None, "Invalid command")
                /\ UNCHANGED <<registered_runners, clock, handlers, dt>>
           ELSE IF match.command = CmdStatus
           THEN /\ Reply(CmdStatus, match.argument, "OK")
                /\ UNCHANGED <<registered_runners, clock, handlers, dt>>
           ELSE IF match.command = CmdRegister
           THEN /\ clock < MaxRegistrations
                /\ _handle_register(h, match.argument)
                /\ UNCHANGED <<handlers, dt>>
           ELSE IF match.command = CmdDispatch
           THEN /\ _handle_dispatch(h, match.argument)
                /\ UNCHANGED <<registered_runners, clock>>
           ELSE IF match.command = CmdResults
           THEN /\ _handle_results(h, match.argument, Tail(wire))
                /\ UNCHANGED <<registered_runners, clock, dt>>
           ELSE /\ Reply(match.command, match.argument, "Unknown command")
                /\ UNCHANGED <<registered_runners, clock, handlers, dt>>
    /\ UNCHANGED <<dispatched_commits, pending_commits, result_files>>

\* the receive loop of _handle_results: one more recv; it blocks while the
\* peer sends nothing, and on a closed connection it returns b"" at once,
\* every time
results_recv(h) ==
    /\ handlers[h].pc = "results_recv"
    /\ handlers[h].wire # <<>>
    /\ LET result_data == handlers[h].data \o Head(handlers[h].wire)
       IN  handlers' = [handlers EXCEPT
               ![h].data = result_data,
               ![h].wire = IF Head(handlers[h].wire) = EOF
                           THEN handlers[h].wire
                           ELSE Tail(handlers[h].wire),
               ![h].pc   = IF Len(result_data) < handlers[h].expected
                           THEN "results_recv" ELSE "results_write"]
    /\ UNCHANGED <<registered_runners, dispatched_commits, pending_commits,
                   result_files, clock, dt>>
    /\ NoReply

\* os.makedirs, open(file_path, "w"), f.write(result_data)
results_write(h) ==
    /\ handlers[h].pc = "results_write"
    /\ handlers[h].commit # <<>>
    /\ result_files' =
           FileWrite(result_files, handlers[h].commit, handlers[h].data)
    /\ handlers' = [handlers EXCEPT ![h].pc = "results_clear"]
    /\ UNCHANGED <<registered_runners, dispatched_commits, pending_commits,
                   clock, dt>>
    /\ NoReply

\* a failing write in a handler that cleared the assignment first
results_write_fails_cleared(h, truncated) ==
    /\ handlers[h].pc = "results_write"
    /\ handlers[h].commit = <<>> => ~truncated
    /\ result_files' =
           IF truncated
           THEN FileWrite(result_files, handlers[h].commit, <<>>)
           ELSE result_files
    /\ dispatched_commits' = DictDel(dispatched_commits, handlers[h].commit)
    /\ Reply(CmdResults, handlers[h].commit, "Error saving results: ...")
    /\ handlers' = [handlers EXCEPT ![h] = IdleHandler]
    /\ UNCHANGED <<registered_runners, pending_commits, clock, dt>>

\* the same three calls raising: the file is not there, or is there and
\* was cut short (open succeeded, write did not); an empty commit id names
\* the directory itself and open always raises
results_write_fails(h, truncated) ==
    /\ handlers[h].pc = "results_write"
    /\ handlers[h].commit = <<>> => ~truncated
    /\ result_files' =
           IF truncated
           THEN FileWrite(result_files, handlers[h].commit, <<>>)
           ELSE result_files
    /\ Reply(CmdResults, handlers[h].commit, "Error saving results: ...")
    /\ handlers' = [handlers EXCEPT ![h] = IdleHandler]
    /\ UNCHANGED <<registered_runners, dispatched_commits, pending_commits,
                   clock, dt>>

\* results_clear without the del
results_clear_keeps(h) ==
    /\ handlers[h].pc = "results_clear"
    /\ handlers' = [handlers EXCEPT ![h].pc = "results_reply"]
    /\ UNCHANGED <<registered_runners, dispatched_commits, pending_commits,
                   result_files, clock, dt>>
    /\ NoReply

\* with commits_lock: del dispatched_commits[commit_id] if present
results_clear(h) ==
    /\ handlers[h].pc = "results_clear"
    /\ dispatched_commits' = DictDel(dispatched_commits, handlers[h].commit)
    /\ handlers' = [handlers EXCEPT ![h].pc = "results_reply"]
    /\ UNCHANGED <<registered_runners, pending_commits, result_files, clock,
                   dt>>
    /\ NoReply

\* self.request.sendall("OK".encode())
results_reply(h) ==
    /\ handlers[h].pc = "results_reply"
    /\ Reply(CmdResults, handlers[h].commit, "OK")
    /\ handlers' = [handlers EXCEPT ![h] = IdleHandler]
    /\ UNCHANGED <<registered_runners, dispatched_commits, pending_commits,
                   result_files, clock, dt>>

(***************************************************************************)
(* dispatch_tests(commit_id): dispatcher.py:219-247, run by the handler    *)
(* thread of an accepted dispatch and by the redistributor.                *)
(***************************************************************************)
\* with runners_lock: available_runners = list(registered_runners); over
\* an empty snapshot the for loop does nothing, and time.sleep(2) and the
\* while loop follow
dt_snapshot(t) ==
    /\ dt[t].pc = "snapshot"
    /\ dt' = [dt EXCEPT ![t].pc = IF registered_runners = <<>>
                                 THEN "snapshot" ELSE "try",
                        ![t].avail = registered_runners]
    /\ UNCHANGED <<registered_runners, dispatched_commits, pending_commits,
                   result_files, clock, handlers>>
    /\ NoReply

\* the message of helpers.communicate(host, port, f"runtest:{commit_id}")
RuntestMessage(commit_id) ==
    <<"r", "u", "n", "t", "e", "s", "t", COLON>> \o commit_id

\* a test that takes every answer of a live runner for an acceptance
Accepted_any_answer(response) == response # CommError

\* the dispatcher's test of the runner's answer
Accepted(response) == response = "OK"

\* one turn of the for loop: response is what communicate returned from
\* the next runner of the snapshot, or CommError when it raised; after the
\* last runner of the snapshot comes time.sleep(2) and the while loop
dt_try(t, response) ==
    /\ dt[t].pc = "try"
    /\ dt' = IF Accepted(response)
             THEN [dt EXCEPT ![t].pc = "record", ![t].runner = Head(dt[t].avail)]
             ELSE IF Tail(dt[t].avail) = <<>>
             THEN [dt EXCEPT ![t].pc = "snapshot", ![t].avail = <<>>]
             ELSE [dt EXCEPT ![t].avail = Tail(dt[t].avail)]
    /\ UNCHANGED <<registered_runners, dispatched_commits, pending_commits,
                   result_files, clock, handlers>>
    /\ NoReply

\* the update without pending_commits.remove(commit_id)
RecordAssignment_keeps_pending(commit_id, runner) ==
    /\ dispatched_commits' = DictSet(dispatched_commits, commit_id, runner)
    /\ pending_commits' = pending_commits

\* with commits_lock: dispatched_commits[commit_id] = runner and
\* pending_commits.remove(commit_id)
RecordAssignment(commit_id, runner) ==
    /\ dispatched_commits' = DictSet(dispatched_commits, commit_id, runner)
    /\ pending_commits' = RemoveFirst(pending_commits, commit_id)

\* the update under commits_lock without the return: the for loop goes on
dt_record_goes_on(t) ==
    /\ dt[t].pc = "record"
    /\ RecordAssignment(dt[t].commit, dt[t].runner)
    /\ dt' = [dt EXCEPT ![t].pc = "try"]
    /\ UNCHANGED <<registered_runners, result_files, clock, handlers>>
    /\ NoReply

\* the update under commits_lock, then return
dt_record(t) ==
    /\ dt[t].pc = "record"
    /\ RecordAssignment(dt[t].commit, dt[t].runner)
    /\ dt' = [dt EXCEPT ![t] = IdleDT]
    /\ handlers' = IF t \in Handlers
                   THEN [handlers EXCEPT ![t] = IdleHandler]
                   ELSE handlers
    /\ UNCHANGED <<registered_runners, result_files, clock>>
    /\ NoReply

(***************************************************************************)
(* runner_checker and remove_runner: dispatcher.py:158-201.                *)
(***************************************************************************)
\* the message of helpers.communicate(host, port, "ping")
PingMessage == <<"p", "i", "n", "g">>

\* the health monitor's test of the runner's answer
Healthy(response) == response = "pong"

\* the for loop of runner_checker moves to the next runner of its snapshot
CheckerAdvance ==
    checker' = [pc   |-> IF Tail(checker.todo) = <<>> THEN "sleep" ELSE "ping",
                todo |-> Tail(checker.todo)]

\* time.sleep(1), then the snapshot under runners_lock
rc_snapshot ==
    /\ checker.pc = "sleep"
    /\ checker' = [pc   |-> IF registered_runners = <<>> THEN "sleep" ELSE "ping",
                   todo |-> registered_runners]
    /\ UNCHANGED dispVars
    /\ NoReply

\* the commits remove_runner requeues: those assigned to runner, in the
\* dict's order
Requeued(runner) ==
    LET hit == SelectSeq(dispatched_commits, LAMBDA e : e[2] = runner)
    IN  [i \in 1..Len(hit) |-> hit[i][1]]

\* remove_runner dropping the assignments without requeueing them
RequeueCommits_dropped(runner) ==
    /\ dispatched_commits' =
           SelectSeq(dispatched_commits, LAMBDA e : e[2] # runner)
    /\ pending_commits' = pending_commits

\* remove_runner, second half, under commits_lock
RequeueCommits(runner) ==
    /\ dispatched_commits' =
           SelectSeq(dispatched_commits, LAMBDA e : e[2] # runner)
    /\ pending_commits' = pending_commits \o Requeued(runner)

\* one ping; an answer other than "pong" and an exception both call
\* remove_runner, whose first half, under runners_lock, takes the runner
\* out of the registry (and returns when it is not there)
rc_ping(response) ==
    /\ checker.pc = "ping"
    /\ LET runner == Head(checker.todo)
       IN  IF Healthy(response) \/ runner \notin Elems(registered_runners)
           THEN CheckerAdvance /\ UNCHANGED registered_runners
           ELSE /\ registered_runners' = RemoveFirst(registered_runners, runner)
                /\ checker' = [checker EXCEPT !.pc = "requeue"]
    /\ UNCHANGED <<dispatched_commits, pending_commits, result_files, clock,
                   handlers, dt>>
    /\ NoReply

\* remove_runner, second half, and back to the for loop
rc_requeue ==
    /\ checker.pc = "requeue"
    /\ RequeueCommits(Head(checker.todo))
    /\ CheckerAdvance
    /\ UNCHANGED <<registered_runners, result_files, clock, handlers, dt>>
    /\ NoReply

(***************************************************************************)
(* redistribute: dispatcher.py:204-216.                                    *)
(***************************************************************************)
\* time.sleep(1), then under commits_lock the queue is copied and cleared
rd_drain ==
    /\ dt[Redis].pc = "off"
    /\ redis = <<>>
    /\ redis' = pending_commits
    /\ pending_commits' = <<>>
    /\ UNCHANGED <<registered_runners, dispatched_commits, result_files,
                   clock, handlers, dt>>
    /\ NoReply

\* for commit_id in current_pending: dispatch_tests(commit_id)
rd_next ==
    /\ dt[Redis].pc = "off"
    /\ redis # <<>>
    /\ dt' = [dt EXCEPT ![Redis] = [IdleDT EXCEPT !.pc = "snapshot",
                                                 !.commit = Head(redis)]]
    /\ redis' = Tail(redis)
    /\ UNCHANGED <<registered_runners, dispatched_commits, pending_commits,
                   result_files, clock, handlers>>
    /\ NoReply

(***************************************************************************)
(* A results upload as the runner frames it, and the ways the stream can   *)
(* reach the recv calls.                                                   *)
(***************************************************************************)
\* f"{status}:{commit_id}:{len(results)}:{results}"
FrameMessage(status, commit_id, results) ==
    status \o <<COLON>> \o commit_id \o <<COLON>> \o str(Len(results))
        \o <<COLON>> \o results

\* every cut of a stream into at most k non-empty reads
RECURSIVE Splits(_, _)
Splits(s, k) ==
    IF k <= 1 \/ Len(s) <= 1 THEN {<<s>>}
    ELSE {<<s>>} \cup
         UNION {{<<SubSeq(s, 1, i)>> \o r :
                     r \in Splits(SubSeq(s, i + 1, Len(s)), k - 1)} :
                i \in 1..(Len(s) - 1)}

PayloadChars == {"x", COLON, NL, SP}

Payloads == UNION {[1..k -> PayloadChars] : k \in 0..MaxPayload}

\* a handler step on connection h; the connection's record ends with it
Conn(h, payload) ==
    sent' = [sent EXCEPT ![h] =
                IF handlers'[h].pc = "idle" THEN None ELSE payload]

(***************************************************************************)
(* FrameSpec: results uploads with the declared length right, one at a     *)
(* time, every payload and every split.                                    *)
(***************************************************************************)
Upload(h, commit_id, payload, wire) ==
    /\ wire \in Splits(FrameMessage(CmdResults, commit_id, payload), MaxChunks)
    /\ handle(h, wire)
    /\ Conn(h, payload)

FrameRest == <<checker, redis, runner_up, busy, worker, rthreads,
               observer, server, manager>>

FrameUpload ==
    /\ \E P \in Payloads :
         \E wire \in Splits(FrameMessage(CmdResults, <<"a">>, P), MaxChunks) :
            Upload(1, <<"a">>, P, wire)
    /\ UNCHANGED FrameRest

FrameRecv == results_recv(1) /\ Conn(1, sent[1]) /\ UNCHANGED FrameRest

FrameWrite == results_write(1) /\ Conn(1, sent[1]) /\ UNCHANGED FrameRest

FrameClear == results_clear(1) /\ Conn(1, sent[1]) /\ UNCHANGED FrameRest

FrameReply == results_reply(1) /\ Conn(1, sent[1]) /\ UNCHANGED FrameRest

FrameNext ==
    \/ FrameUpload
    \/ FrameRecv
    \/ FrameWrite
    \/ FrameClear
    \/ FrameReply

FrameSpec == Init /\ [][FrameNext]_vars

\* C8 (framing correctness): once every read of a correctly framed upload
\* of payload P has been consumed, the data the handler holds for the
\* commit, which is what it stores, is exactly P.
C8_FramingReconstructsPayload ==
    \A h \in Handlers :
        (sent[h] # None /\ handlers[h].wire = <<>>) =>
            handlers[h].data = sent[h]

(***************************************************************************)
(* Spec: the dispatcher against its environment.  Clients connect and send *)
(* requests; the peer at a registered address, while a process listens     *)
(* there, answers a ping or a runtest with any of the answers below, and   *)
(* the exchange raises when nothing listens.                               *)
(***************************************************************************)
RegisterMessage(port) == CmdRegister \o <<COLON>> \o Host \o <<COLON>> \o str(port)

DispatchMessage(commit_id) == CmdDispatch \o <<COLON>> \o commit_id

ClientRequests ==
    {CmdStatus} \cup {RegisterMessage(p) : p \in Ports}
        \cup {DispatchMessage(c) : c \in Commits}

\* a stream delivered in two reads, the second holding its last character
CutLast(m) == <<SubSeq(m, 1, Len(m) - 1), <<m[Len(m)]>>>>

\* an upload that declares one character more than the peer sends before
\* it closes the connection
ShortUpload(commit_id, results) ==
    <<CmdResults \o <<COLON>> \o commit_id \o <<COLON>>
          \o str(Len(results) + 1) \o <<COLON>> \o results,
      EOF>>

\* the uploads clients send in Spec, both for commit a: one that the
\* receive loop completes with a second read, and one cut short
ClientUploads ==
    {[commit |-> <<"a">>, payload |-> <<"x", "y">>,
      wire |-> CutLast(FrameMessage(CmdResults, <<"a">>, <<"x", "y">>))],
     [commit |-> <<"a">>, payload |-> <<"x">>,
      wire |-> ShortUpload(<<"a">>, <<"x">>)]}

PingAnswers(runner) ==
    IF runner.port \in Ports /\ runner_up[runner.port]
    THEN {"pong", "OK:pong"} ELSE {CommError}

RuntestAnswers(runner) ==
    IF runner.port \in Ports /\ runner_up[runner.port]
    THEN {"OK", "BUSY", "OK:OK", "OK:BUSY"} ELSE {CommError}

EnvRest == <<runner_up, busy, worker, rthreads, observer, server, manager>>

\* a new connection is served by the first thread slot that is free
SlotFree(h) ==
    /\ handlers[h].pc = "idle"
    /\ \A p \in Ports : worker[p].conn # h

FreeSlots == {h \in Handlers : SlotFree(h)}

\* the clients of Spec hold at most MaxConnections connections at a time
MayConnect(h) ==
    /\ FreeSlots # {}
    /\ h = SetMin(FreeSlots)
    /\ Cardinality(Handlers \ FreeSlots) < MaxConnections

Request ==
    /\ \E h \in Handlers, m \in ClientRequests :
          MayConnect(h) /\ handle(h, <<m>>) /\ Conn(h, None)
    /\ UNCHANGED <<checker, redis, EnvRest>>

ResultsRequest ==
    /\ \E h \in Handlers, u \in ClientUploads :
          MayConnect(h) /\ handle(h, u.wire) /\ Conn(h, u.payload)
    /\ UNCHANGED <<checker, redis, EnvRest>>

ResultsRecv ==
    /\ \E h \in Handlers : results_recv(h) /\ Conn(h, sent[h])
    /\ UNCHANGED <<checker, redis, EnvRest>>

ResultsWrite ==
    /\ \E h \in Handlers : results_write(h) /\ Conn(h, sent[h])
    /\ UNCHANGED <<checker, redis, EnvRest>>

ResultsWriteFails ==
    /\ \E h \in Handlers, truncated \in BOOLEAN :
          results_write_fails(h, truncated) /\ Conn(h, sent[h])
    /\ UNCHANGED <<checker, redis, EnvRest>>

ResultsClear ==
    /\ \E h \in Handlers : results_clear(h) /\ Conn(h, sent[h])
    /\ UNCHANGED <<checker, redis, EnvRest>>

ResultsReply ==
    /\ \E h \in Handlers : results_reply(h) /\ Conn(h, sent[h])
    /\ UNCHANGED <<checker, redis, EnvRest>>

DispatchSnapshot ==
    /\ \E t \in DTThreads : dt_snapshot(t)
    /\ UNCHANGED <<checker, redis, sent, EnvRest>>

DispatchTry ==
    /\ \E t \in DTThreads :
         /\ dt[t].pc = "try"
         /\ \E response \in RuntestAnswers(Head(dt[t].avail)) :
               dt_try(t, response)
    /\ UNCHANGED <<checker, redis, sent, EnvRest>>

DispatchRecord ==
    /\ \E t \in DTThreads : dt_record(t)
    /\ UNCHANGED <<checker, redis, sent, EnvRest>>

CheckerSnapshot == rc_snapshot /\ UNCHANGED <<redis, sent, EnvRest>>

CheckerPing ==
    /\ checker.pc = "ping"
    /\ \E response \in PingAnswers(Head(checker.todo)) : rc_ping(response)
    /\ UNCHANGED <<redis, sent, EnvRest>>

CheckerRequeue == rc_requeue /\ UNCHANGED <<redis, sent, EnvRest>>

RedisDrain == rd_drain /\ UNCHANGED <<checker, sent, EnvRest>>

RedisNext == rd_next /\ UNCHANGED <<checker, sent, EnvRest>>

\* the process listening at a runner address dies
PeerDown ==
    /\ \E p \in Ports : runner_up[p] /\ runner_up' = [runner_up EXCEPT ![p] = FALSE]
    /\ NoReply
    /\ UNCHANGED <<dispVars, checker, redis, sent, busy, worker, rthreads,
                   observer, server, manager>>

Next ==
    \/ Request
    \/ ResultsRequest
    \/ ResultsRecv
    \/ ResultsWrite
    \/ ResultsWriteFails
    \/ ResultsClear
    \/ ResultsReply
    \/ DispatchSnapshot
    \/ DispatchTry
    \/ DispatchRecord
    \/ CheckerSnapshot
    \/ CheckerPing
    \/ CheckerRequeue
    \/ RedisDrain
    \/ RedisNext
    \/ PeerDown

Spec == Init /\ [][Next]_vars

\* the threads of the dispatcher run on; clients and peers owe nothing
FairSpec ==
    /\ Spec
    /\ WF_vars(ResultsRecv)
    /\ WF_vars(ResultsWrite)
    /\ WF_vars(ResultsClear)
    /\ WF_vars(ResultsReply)
    /\ WF_vars(DispatchSnapshot)
    /\ WF_vars(DispatchTry)
    /\ WF_vars(DispatchRecord)
    /\ WF_vars(CheckerSnapshot)
    /\ WF_vars(CheckerPing)
    /\ WF_vars(CheckerRequeue)
    /\ WF_vars(RedisDrain)
    /\ WF_vars(RedisNext)

(***************************************************************************)
(* The repository's runner: test_runner.py.                                *)
(***************************************************************************)
\* self.request.sendall(f"{prefix}{message}".encode())
_send_response(message, error) ==
    (IF error THEN "ERROR:" ELSE "OK:") \o message

\* data.split(':', 1) when ':' is in data, else (data, None)
RunnerCommand(data) ==
    IF COLON \in Elems(strip(data)) THEN split(strip(data), 1)[1]
    ELSE strip(data)

RunnerArgument(data) ==
    IF COLON \in Elems(strip(data)) THEN split(strip(data), 1)[2] ELSE None

\* the command of a test request
CmdRuntest == <<"r", "u", "n", "t", "e", "s", "t">>

\* the answer to "ping" without the prefix of _send_response
_handle_ping_unprefixed == "pong"

\* _handle_ping: the answer to "ping"
_handle_ping == _send_response("pong", FALSE)

\* TestRunnerHandler.handle: what the server whose busy flag is b answers
\* to data
runner_handle(data, b) ==
    IF RunnerCommand(data) = PingMessage THEN _handle_ping
    ELSE IF RunnerCommand(data) = CmdRuntest
    THEN _send_response(IF b THEN "BUSY" ELSE "OK", FALSE)
    ELSE _send_response("Unknown command", TRUE)

\* _handle_runtest: an idle server sets busy and starts the thread of
\* _execute_test_run(commit_id)
_handle_runtest(p, commit_id) ==
    IF busy[p]
    THEN UNCHANGED <<busy, worker>>
    ELSE /\ busy' = [busy EXCEPT ![p] = TRUE]
         /\ worker' = [worker EXCEPT ![p] =
                          [IdleWorker EXCEPT !.pc = "run", !.commit = commit_id]]

\* what helpers.communicate returns from the runner at a descriptor
RunnerAnswer(runner, message) ==
    IF runner.port \in Ports /\ runner_up[runner.port]
    THEN runner_handle(message, busy[runner.port])
    ELSE CommError

\* what unittest.TextTestRunner writes: lines, each ended by a newline
TestOutputs == {<<"x", NL>>, <<"x", NL, "y", NL>>}

\* the text of "Repository update failed: ..." / "Test execution error: ..."
ErrorTexts == {<<"e">>}

\* _execute_test_run up to the report: the tests ran, or a step raised
worker_run(p) ==
    /\ worker[p].pc = "run"
    /\ \E out \in TestOutputs \cup ErrorTexts :
          worker' = [worker EXCEPT ![p].pc = "report",
                                   ![p].results = out,
                                   ![p].error = (out \in ErrorTexts)]
    /\ NoReply
    /\ UNCHANGED <<dispVars, checker, redis, sent, runner_up, busy, rthreads,
                   observer, server, manager>>

\* _report_results: communicate connects and sends the framed message in
\* one piece
worker_report(p, h) ==
    /\ worker[p].pc = "report"
    /\ FreeSlots # {} /\ h = SetMin(FreeSlots)
    /\ \E message \in {FrameMessage(IF worker[p].error
                                     THEN <<"e", "r", "r", "o", "r">>
                                     ELSE CmdResults,
                                     worker[p].commit, worker[p].results)} :
          handle(h, <<message>>)
    /\ Conn(h, IF worker[p].error THEN None ELSE worker[p].results)
    /\ worker' = [worker EXCEPT ![p].pc = "wait", ![p].conn = h]
    /\ UNCHANGED <<checker, redis, runner_up, busy, rthreads,
                   observer, server, manager>>

\* communicate's recv returns when the dispatcher has replied; the finally
\* clause of _execute_test_run clears busy
worker_done(p) ==
    /\ worker[p].pc = "wait"
    /\ handlers[worker[p].conn].pc = "idle"
    /\ worker' = [worker EXCEPT ![p] = IdleWorker]
    /\ busy' = [busy EXCEPT ![p] = FALSE]
    /\ NoReply
    /\ UNCHANGED <<dispVars, checker, redis, sent, runner_up, rthreads,
                   observer, server, manager>>

\* start_test_runner: the server is bound, registers, and serves when the
\* dispatcher answered "OK"; otherwise the process ends
start_test_runner(p, h) ==
    /\ ~runner_up[p]
    /\ FreeSlots # {} /\ h = SetMin(FreeSlots)
    /\ handle(h, <<RegisterMessage(p)>>)
    /\ Conn(h, None)
    /\ runner_up' = [runner_up EXCEPT ![p] = (reply'.text = "OK")]
    /\ busy' = [busy EXCEPT ![p] = FALSE]
    /\ UNCHANGED <<checker, redis, worker, rthreads,
                   observer, server, manager>>

(***************************************************************************)
(* RunnerSpec: the runner at RunnerPort, one step per statement that reads *)
(* or writes server.busy.  ThreadingMixIn gives every request a thread of  *)
(* its own, and no lock guards the flag.                                   *)
(***************************************************************************)
\* what the dispatcher and other clients send to a runner
RunnerRequests ==
    {PingMessage, PingMessage \o <<NL>>, CmdStatus, <<"f", "o", "o">>}
        \cup {RuntestMessage(c) : c \in Commits}

\* handle up to the test of server.busy in _handle_runtest: ping and unknown
\* commands are answered at once, runtest is answered BUSY when the flag is
\* set
runner_recv(k) ==
    /\ rthreads.handler[k].pc = "idle"
    /\ \E data \in RunnerRequests :
          IF RunnerCommand(data) = CmdRuntest /\ ~busy[RunnerPort]
          THEN /\ rthreads' = [rthreads EXCEPT
                                  !.handler[k] =
                                      [pc |-> "set",
                                       commit |-> RunnerArgument(data)]]
               /\ NoReply
          ELSE /\ Reply(RunnerCommand(data), RunnerArgument(data),
                        runner_handle(data, busy[RunnerPort]))
               /\ UNCHANGED rthreads
    /\ UNCHANGED <<dispVars, checker, redis, sent, runner_up, busy, worker,
                   observer, server, manager>>

\* _handle_runtest past the test: server.busy = True, then the answer
runtest_set(k) ==
    /\ rthreads.handler[k].pc = "set"
    /\ busy' = [busy EXCEPT ![RunnerPort] = TRUE]
    /\ Reply(CmdRuntest, rthreads.handler[k].commit,
             runner_handle(RuntestMessage(rthreads.handler[k].commit), FALSE))
    /\ rthreads' = [rthreads EXCEPT !.handler[k].pc = "start"]
    /\ UNCHANGED <<dispVars, checker, redis, sent, runner_up, worker,
                   observer, server, manager>>

\* threading.Thread(target=self._execute_test_run, ...).start()
runtest_start(k) ==
    /\ rthreads.handler[k].pc = "start"
    /\ rthreads.running < MaxWorkers
    /\ rthreads' = [rthreads EXCEPT !.handler[k] = IdleRunnerHandler,
                                    !.running = @ + 1]
    /\ NoReply
    /\ UNCHANGED <<dispVars, checker, redis, sent, runner_up, busy, worker,
                   observer, server, manager>>

\* an _execute_test_run thread ends: its finally clause clears server.busy
execute_end ==
    /\ rthreads.running > 0
    /\ rthreads' = [rthreads EXCEPT !.running = @ - 1]
    /\ busy' = [busy EXCEPT ![RunnerPort] = FALSE]
    /\ NoReply
    /\ UNCHANGED <<dispVars, checker, redis, sent, runner_up, worker,
                   observer, server, manager>>

RunnerRecv == \E k \in RSlots : runner_recv(k)

RunnerSet == \E k \in RSlots : runtest_set(k)

RunnerStartThread == \E k \in RSlots : runtest_start(k)

RunnerNext ==
    \/ RunnerRecv
    \/ RunnerSet
    \/ RunnerStartThread
    \/ execute_end

RunnerSpec == Init /\ [][RunnerNext]_vars

(***************************************************************************)
(* SysSpec: the dispatcher with the repository's runner at every address.  *)
(* Clients send dispatch requests, one dispatch_tests call of a handler    *)
(* thread at a time.                                                       *)
(***************************************************************************)
\* no runner process has been started
SysInit == Start(FALSE)

RunnerStart == \E p \in Ports, h \in Handlers : start_test_runner(p, h)

\* the runner process is killed, its threads with it
RunnerDown ==
    /\ \E p \in Ports :
          /\ runner_up[p]
          /\ runner_up' = [runner_up EXCEPT ![p] = FALSE]
          /\ busy' = [busy EXCEPT ![p] = FALSE]
          /\ worker' = [worker EXCEPT ![p] = IdleWorker]
    /\ NoReply
    /\ UNCHANGED <<dispVars, checker, redis, sent, rthreads,
                   observer, server, manager>>

ClientDispatch ==
    /\ \A t \in Handlers : dt[t].pc = "off"
    /\ \E c \in Commits, h \in Handlers :
          /\ FreeSlots # {} /\ h = SetMin(FreeSlots)
          /\ handle(h, <<DispatchMessage(c)>>)
          /\ Conn(h, None)
    /\ UNCHANGED <<checker, redis, EnvRest>>

SysDispatchTry ==
    /\ \E t \in DTThreads :
         /\ dt[t].pc = "try"
         /\ dt_try(t, RunnerAnswer(Head(dt[t].avail),
                                   RuntestMessage(dt[t].commit)))
         /\ IF Head(dt[t].avail).port \in Ports
                /\ runner_up[Head(dt[t].avail).port]
            THEN _handle_runtest(Head(dt[t].avail).port,
                                 RunnerArgument(RuntestMessage(dt[t].commit)))
            ELSE UNCHANGED <<busy, worker>>
    /\ UNCHANGED <<checker, redis, sent, runner_up, rthreads,
                   observer, server, manager>>

SysCheckerPing ==
    /\ checker.pc = "ping"
    /\ rc_ping(RunnerAnswer(Head(checker.todo), PingMessage))
    /\ UNCHANGED <<redis, sent, EnvRest>>

WorkerRun == \E p \in Ports : worker_run(p)

WorkerReport == \E p \in Ports, h \in Handlers : worker_report(p, h)

WorkerDone == \E p \in Ports : worker_done(p)

\* the steps of the dispatcher that SysSpec never enables (SysClosed) are
\* not listed
SysNext ==
    \/ RunnerStart
    \/ RunnerDown
    \/ ClientDispatch
    \/ DispatchSnapshot
    \/ SysDispatchTry
    \/ CheckerSnapshot
    \/ SysCheckerPing
    \/ CheckerRequeue
    \/ RedisDrain
    \/ WorkerRun
    \/ WorkerReport
    \/ WorkerDone

SysSpec == SysInit /\ [][SysNext]_vars

\* no behaviour of SysSpec enables the other steps of the dispatcher
SysClosed ==
    /\ \A t \in DTThreads : dt[t].pc # "record"
    /\ \A h \in Handlers : handlers[h].pc \in {"idle", "dispatch_tests",
                                               "results_recv"}
    /\ \A h \in Handlers : handlers[h].pc = "results_recv" =>
                               handlers[h].wire = <<>>
    /\ redis = <<>>

\* the threads of the dispatcher and of the runners run on; clients owe
\* no request, and whether a runner starts or is killed is the operator's
SysFairSpec ==
    /\ SysSpec
    /\ WF_vars(DispatchSnapshot)
    /\ WF_vars(SysDispatchTry)
    /\ WF_vars(CheckerSnapshot)
    /\ WF_vars(SysCheckerPing)
    /\ WF_vars(CheckerRequeue)
    /\ WF_vars(RedisDrain)
    /\ WF_vars(WorkerRun)
    /\ WF_vars(WorkerReport)
    /\ WF_vars(WorkerDone)

(***************************************************************************)
(* Properties of the dispatcher.                                           *)
(***************************************************************************)
Assigned(c) == c \in DictKeys(dispatched_commits)

Pending(c) == c \in Elems(pending_commits)

\* C1: in every reachable state no commit id is both a key of
\* dispatched_commits and an element of pending_commits.
C1_NotAssignedAndPending ==
    \A i \in 1..Len(dispatched_commits) : ~Pending(dispatched_commits[i][1])

\* an assignment is about to be recorded for a commit that an eviction put
\* into the queue, beside an assignment recorded before
C1_Witness ==
    /\ dispatched_commits # <<>>
    /\ \E t \in DTThreads : dt[t].pc = "record" /\ Pending(dt[t].commit)

\* the (host, port) pairs of the registry are pairwise different
NoDuplicateRunner ==
    \A i, j \in 1..Len(registered_runners) :
        (/\ registered_runners[i].host = registered_runners[j].host
         /\ registered_runners[i].port = registered_runners[j].port) => i = j

\* the argument of a register request names a pair the registry holds
NamesRegistered(argument) ==
    /\ argument # None
    /\ Len(splitAll(argument)) = 2
    /\ int(splitAll(argument)[2]).ok
    /\ \E i \in 1..Len(registered_runners) :
          /\ registered_runners[i].host = splitAll(argument)[1]
          /\ registered_runners[i].port = int(splitAll(argument)[2]).value

\* C2: the registry never holds two descriptors with the same (host, port),
\* and a register request for a pair already present is answered
\* "Runner already registered" and leaves the registry as it was.
C2_NoRunnerDuplication ==
    /\ []NoDuplicateRunner
    /\ [][(reply'.command = CmdRegister /\ NamesRegistered(reply'.argument))
            => /\ reply'.text = "Runner already registered"
               /\ registered_runners' = registered_runners]_vars

\* a second register for a listed pair was just refused
C2_Witness ==
    /\ reply.command = CmdRegister
    /\ reply.text = "Runner already registered"
    /\ registered_runners # <<>>

\* C7: a dispatch request handled while the registry is empty is answered
\* "No runners available"; the pending queue and the assignment table stay
\* as they were, and no dispatch_tests invocation is started: the
\* invocations and the handler threads are as before the request.
C7_NoRunnersAvailable ==
    [][(reply'.command = CmdDispatch /\ registered_runners = <<>>)
         => /\ reply'.text = "No runners available"
            /\ UNCHANGED <<pending_commits, dispatched_commits, dt,
                           handlers>>]_vars

\* a dispatch was just refused for want of runners
C7_Witness ==
    /\ reply.command = CmdDispatch
    /\ reply.text = "No runners available"
    /\ reply.argument \in Commits

\* the commits assigned to runner, as a set
AssignedTo(runner) ==
    {dispatched_commits[i][1] :
        i \in {j \in 1..Len(dispatched_commits) : dispatched_commits[j][2] = runner}}

\* C5: when the health monitor evicts runner R, the registry step leaves no
\* descriptor of R's address in the registry, and when the eviction
\* completes R is not in the registry, no assignment maps to R, the commits
\* that were assigned to R have been appended to the pending queue, and the
\* assignments to other runners are as before.
C5_Eviction ==
    [][/\ (checker.pc = "ping" /\ checker'.pc = "requeue") =>
            \A i \in 1..Len(registered_runners') :
                ~(/\ registered_runners'[i].host = Head(checker.todo).host
                  /\ registered_runners'[i].port = Head(checker.todo).port)
       /\ (checker.pc = "requeue" /\ checker'.pc # "requeue") =>
            LET R == Head(checker.todo)
            IN  /\ R \notin Elems(registered_runners')
                /\ \A i \in 1..Len(dispatched_commits') :
                      dispatched_commits'[i][2] # R
                /\ Len(pending_commits') =
                      Len(pending_commits) + Cardinality(AssignedTo(R))
                /\ SubSeq(pending_commits', 1, Len(pending_commits)) =
                      pending_commits
                /\ \A c \in AssignedTo(R) : c \in Elems(pending_commits')
                /\ \A i \in 1..Len(dispatched_commits) :
                      dispatched_commits[i][2] # R =>
                          \E j \in 1..Len(dispatched_commits') :
                              dispatched_commits'[j] = dispatched_commits[i]
                /\ DictKeys(dispatched_commits') \subseteq
                      DictKeys(dispatched_commits)]_vars

\* an eviction has requeued a commit and left another runner's assignment
C5_Witness ==
    /\ pending_commits # <<>>
    /\ dispatched_commits # <<>>
    /\ checker.pc # "requeue"

\* the handler steps of _handle_results past the receive loop
ResultsPcs == {"results_write", "results_clear", "results_reply"}

\* C9 as stated: whenever a handler is at the point of replying OK to a
\* results upload for c, the file named c holds the uploaded payload and c
\* is not a key of dispatched_commits.
C9_ReplyOKStoredAndCleared ==
    \A h \in Handlers :
        handlers[h].pc = "results_reply" =>
            /\ handlers[h].commit \in DOMAIN result_files
            /\ result_files[handlers[h].commit] = sent[h]
            /\ ~Assigned(handlers[h].commit)

\* C9 (amended): a handler replies OK to a results upload for c only after
\* it has written the uploaded payload to the file named c and, after that
\* write, has taken c out of dispatched_commits; a missing entry stops
\* neither step; the file named c exists at the reply and ever after.
C9_ResultDurability ==
    [][/\ \A h \in Handlers :
            LET c == handlers[h].commit
            IN  /\ handlers'[h].pc = "results_clear" =>
                      \/ handlers[h] = handlers'[h]
                      \/ /\ handlers[h].pc = "results_write"
                         /\ handlers[h].data = sent[h]
                         /\ c \in DOMAIN result_files'
                         /\ result_files'[c] = sent[h]
                /\ handlers'[h].pc = "results_reply" =>
                      \/ handlers[h] = handlers'[h]
                      \/ /\ handlers[h].pc = "results_clear"
                         /\ handlers'[h].commit = c
                         /\ c \notin DictKeys(dispatched_commits')
                /\ (handlers[h].pc = "results_clear"
                        /\ handlers'[h] # handlers[h]) =>
                      /\ handlers'[h].pc = "results_reply"
                      /\ reply' = Silence
       /\ (reply'.command = CmdResults /\ reply'.text = "OK") =>
            \E h \in Handlers :
                /\ handlers[h].pc = "results_reply"
                /\ handlers'[h].pc = "idle"
                /\ reply'.argument = handlers[h].commit
                /\ handlers[h].commit \in DOMAIN result_files'
       /\ DOMAIN result_files \subseteq DOMAIN result_files']_vars

\* OK was just replied to an upload whose payload is in the file
C9_Witness ==
    /\ reply.command = CmdResults
    /\ reply.text = "OK"
    /\ \E u \in ClientUploads :
          /\ reply.argument = u.commit
          /\ u.commit \in DOMAIN result_files
          /\ result_files[u.commit] = u.payload

\* C10: a results handler takes c out of dispatched_commits only in the
\* step that follows its successful write of the file named c; when the
\* write fails it replies "Error saving results: ..." and leaves
\* dispatched_commits as it was.
C10_ClearOnlyAfterWrite ==
    [][\A h \in Handlers :
          LET c == handlers[h].commit
          IN  /\ (handlers[h].pc = "results_write"
                      /\ handlers'[h].pc = "idle") =>
                    /\ reply'.command = CmdResults
                    /\ reply'.text = "Error saving results: ..."
                    /\ dispatched_commits' = dispatched_commits
              /\ (handlers[h].pc = "results_write"
                      /\ handlers'[h].pc = "results_clear") =>
                    /\ result_files'[c] = handlers[h].data
                    /\ dispatched_commits' = dispatched_commits
              /\ (handlers[h].pc \in ResultsPcs \cup {"results_recv"}
                      /\ handlers'[h] # handlers[h]
                      /\ Assigned(c)
                      /\ c \notin DictKeys(dispatched_commits')) =>
                    handlers[h].pc = "results_clear"
              /\ (handlers[h].pc = "results_write"
                      /\ handlers'[h] # handlers[h]) =>
                    handlers'[h].pc \in {"idle", "results_clear"}]_vars

\* a write just failed for a commit that is still assigned
C10_Witness ==
    /\ reply.command = CmdResults
    /\ reply.text = "Error saving results: ..."
    /\ reply.argument # None
    /\ Assigned(reply.argument)

\* commit c is assigned to a runner at port p
AssignedAt(c, p) ==
    \E i \in 1..Len(dispatched_commits) :
        /\ dispatched_commits[i][1] = c
        /\ dispatched_commits[i][2].port = p

\* C6 as stated, first half: a commit assigned to a runner that is dead
\* eventually appears in the pending queue (or leaves the table because
\* its results were stored).
C6_EvictionRequeueLiveness ==
    \A c \in Commits, p \in Ports :
        (AssignedAt(c, p) /\ ~runner_up[p]) ~> (Pending(c) \/ ~Assigned(c))

(***************************************************************************)
(* Properties of the dispatcher with the repository's runner.              *)
(***************************************************************************)
\* the dispatcher has just replied OK to dispatch:c
DispatchAccepted(c) ==
    /\ reply.command = CmdDispatch
    /\ reply.argument = c
    /\ reply.text = "OK"

\* a live runner process at port p is in the registry
RegisteredLive(p) ==
    /\ runner_up[p]
    /\ \E i \in 1..Len(registered_runners) : registered_runners[i].port = p

\* C3 as stated: when dispatch:c is accepted while a registered runner is
\* alive, c is eventually recorded in dispatched_commits, unless that
\* runner stops being alive.
C3_DispatchLiveness ==
    \A c \in Commits, p \in Ports :
        (DispatchAccepted(c) /\ RegisteredLive(p))
            ~> (Assigned(c) \/ ~runner_up[p])

\* C4 as stated: when dispatch:c is accepted while a registered idle
\* runner is alive, eventually the file named c is in the result store and
\* c is not a key of dispatched_commits, unless that runner stops being
\* alive.
C4_HappyPath ==
    \A c \in Commits, p \in Ports :
        (DispatchAccepted(c) /\ RegisteredLive(p) /\ ~busy[p])
            ~> ((c \in DOMAIN result_files /\ ~Assigned(c)) \/ ~runner_up[p])

(***************************************************************************)
(* ProtoSpec: the dispatcher with clients that send malformed requests     *)
(* (and runners that register).                                            *)
(***************************************************************************)
MalformedRequests ==
    {CmdRegister,
     CmdRegister \o <<COLON>> \o Host,
     CmdRegister \o <<COLON>> \o Host \o <<COLON, "x">>,
     CmdDispatch,
     CmdDispatch \o <<COLON>>,
     CmdResults,
     CmdResults \o <<COLON, "a">>,
     CmdResults \o <<COLON, "a", COLON, "x", COLON, "y">>,
     <<"f", "o", "o">>,
     <<COLON>>}

ProtoRequest ==
    /\ \E h \in Handlers :
          \E m \in MalformedRequests \cup {RegisterMessage(p) : p \in Ports} :
              MayConnect(h) /\ handle(h, <<m>>) /\ Conn(h, None)
    /\ UNCHANGED <<checker, redis, EnvRest>>

ProtoNext ==
    \/ ProtoRequest
    \/ DispatchSnapshot
    \/ DispatchTry
    \/ DispatchRecord
    \/ CheckerSnapshot
    \/ CheckerPing
    \/ CheckerRequeue
    \/ RedisDrain
    \/ RedisNext
    \/ PeerDown

ProtoSpec == Init /\ [][ProtoNext]_vars

(***************************************************************************)
(* ObserverSpec: repo_observer.scan, repo_observer.py:32-64, with the      *)
(* dispatcher's request handlers and dispatch_tests calls.  An exception   *)
(* that leaves scan ends the observer process.                             *)
(***************************************************************************)
\* what the observer leaves unchanged
ObsRest == <<checker, redis, runner_up, busy, worker, rthreads, server,
            manager>>

\* the outcomes of ./scripts/update_repo.sh: no new commit, a new commit
\* whose id it writes to .commit_id, or a non-zero exit
UpdateFailed == <<"<CalledProcessError>">>

UpdateOutcomes == {None, UpdateFailed} \cup Commits

\* the text of .commit_id: the id and a newline
SentinelText(commit_id) == commit_id \o <<NL>>

\* subprocess.check_output(update_repo.sh); CalledProcessError is raised
\* again as Exception and scan ends; then commit_id_file.is_file()
obs_update ==
    /\ observer.pc = "update"
    /\ \E outcome \in UpdateOutcomes :
          observer' =
              IF outcome = UpdateFailed THEN [observer EXCEPT !.pc = "dead"]
              ELSE IF outcome = None
              THEN [observer EXCEPT
                       !.pc = IF observer.sentinel = None
                              THEN "sleep" ELSE "status"]
              ELSE [observer EXCEPT !.pc = "status",
                                    !.sentinel = SentinelText(outcome)]
    /\ NoReply
    /\ UNCHANGED <<dispVars, sent, ObsRest>>

\* the file is removed whatever the dispatcher answered
unlink_always(response) == None

\* commit_id_file.unlink() is reached when response == "OK"; otherwise
\* scan raises and the file stays
unlink(response) ==
    IF response = "OK" THEN None ELSE observer.sentinel

\* helpers.communicate(host, port, "status"): its Exception is not a
\* socket.error and leaves scan, as does the raise on a response that is
\* not "OK"
obs_status(h) ==
    /\ observer.pc = "status"
    /\ IF observer.reachable
       THEN /\ FreeSlots # {} /\ h = SetMin(FreeSlots)
            /\ handle(h, <<CmdStatus>>)
            /\ Conn(h, None)
            /\ observer' = [observer EXCEPT
                               !.pc = IF reply'.text = "OK"
                                      THEN "dispatch" ELSE "dead"]
       ELSE /\ h = 1
            /\ observer' = [observer EXCEPT !.pc = "dead"]
            /\ NoReply
            /\ UNCHANGED <<dispVars, sent>>
    /\ UNCHANGED ObsRest

\* commit = commit_id_file.read_text().strip(); communicate(dispatch:commit);
\* raise on a response that is not "OK", else unlink
obs_dispatch(h) ==
    /\ observer.pc = "dispatch"
    /\ IF observer.reachable
       THEN /\ FreeSlots # {} /\ h = SetMin(FreeSlots)
            /\ handle(h, <<DispatchMessage(strip(observer.sentinel))>>)
            /\ Conn(h, None)
            /\ observer' = [observer EXCEPT
                               !.pc = IF reply'.text = "OK"
                                      THEN "sleep" ELSE "dead",
                               !.sentinel = unlink(reply'.text)]
       ELSE /\ h = 1
            /\ observer' = [observer EXCEPT !.pc = "dead"]
            /\ NoReply
            /\ UNCHANGED <<dispVars, sent>>
    /\ UNCHANGED ObsRest

\* time.sleep(config.REPO_POLL_INTERVAL), then the next turn of the loop
obs_sleep ==
    /\ observer.pc = "sleep"
    /\ observer' = [observer EXCEPT !.pc = "update"]
    /\ NoReply
    /\ UNCHANGED <<dispVars, sent, ObsRest>>

ObsStatus == \E h \in Handlers : obs_status(h)

ObsDispatch == \E h \in Handlers : obs_dispatch(h)

\* the dispatcher goes out of the observer's reach, or comes back
LinkChange ==
    /\ observer' = [observer EXCEPT !.reachable = ~observer.reachable]
    /\ NoReply
    /\ UNCHANGED <<dispVars, sent, ObsRest>>

\* runners register with the dispatcher
ObsRegister ==
    /\ \E h \in Handlers, p \in Ports :
          MayConnect(h) /\ handle(h, <<RegisterMessage(p)>>) /\ Conn(h, None)
    /\ UNCHANGED <<checker, redis, EnvRest>>

ObserverNext ==
    \/ obs_update
    \/ ObsStatus
    \/ ObsDispatch
    \/ obs_sleep
    \/ LinkChange
    \/ ObsRegister
    \/ DispatchSnapshot
    \/ DispatchTry
    \/ DispatchRecord

ObserverSpec == Init /\ [][ObserverNext]_vars

(***************************************************************************)
(* ManagerSpec: runner_manager.py, main and RunnerManager.maintain_pool.   *)
(* A handle of processes is the pid of the child and whether poll() still  *)
(* returns None.                                                           *)
(***************************************************************************)
\* what the manager leaves unchanged
ManagerRest ==
    <<dispVars, checker, redis, sent, runner_up, busy, worker, rthreads,
      observer, server>>

\* main: parse_args gives --desired-count, then the loop calls
\* maintain_pool
manager_main ==
    /\ manager.pc = "call"
    /\ manager.desired_count = 0
    /\ manager.spawned = 0
    /\ \E n \in 1..MaxDesired :
          manager' = [manager EXCEPT !.desired_count = n]
    /\ NoReply
    /\ UNCHANGED ManagerRest

\* maintain_pool, first statement: keep the handles whose poll() is None
mp_prune ==
    /\ manager.pc = "call"
    /\ manager.desired_count > 0
    /\ manager' = [manager EXCEPT
                      !.pc = "test",
                      !.processes = SelectSeq(manager.processes,
                                              LAMBDA proc : proc.alive)]
    /\ NoReply
    /\ UNCHANGED ManagerRest

\* while len(self.processes) < desired_count; the return is followed by
\* time.sleep in main
mp_test ==
    /\ manager.pc = "test"
    /\ manager' = [manager EXCEPT
                      !.pc = IF Len(manager.processes) < manager.desired_count
                             THEN "spawn" ELSE "sleep"]
    /\ NoReply
    /\ UNCHANGED ManagerRest

\* _spawn_runner: Popen returns a handle, which is appended, or an
\* exception is raised inside the try (by Popen, or by the lookup of
\* config.TEST_RUNNER_HOST and config.TEST_RUNNER_PORT, which config.py
\* does not define) and is logged
_spawn_runner(started) ==
    /\ manager.pc = "spawn"
    /\ started => manager.spawned < MaxSpawns
    /\ manager' =
          IF started
          THEN [manager EXCEPT
                   !.pc = "test",
                   !.spawned = @ + 1,
                   !.processes = Append(@, [pid |-> manager.spawned + 1,
                                            alive |-> TRUE])]
          ELSE [manager EXCEPT !.pc = "test"]
    /\ NoReply
    /\ UNCHANGED ManagerRest

\* time.sleep(config.RUNNER_CHECK_INTERVAL), then the next call
manager_sleep ==
    /\ manager.pc = "sleep"
    /\ manager' = [manager EXCEPT !.pc = "call"]
    /\ NoReply
    /\ UNCHANGED ManagerRest

\* a child process exits: poll() of its handle is not None from now on
child_exit(i) ==
    /\ i \in 1..Len(manager.processes)
    /\ manager.processes[i].alive
    /\ manager' = [manager EXCEPT !.processes[i].alive = FALSE]
    /\ NoReply
    /\ UNCHANGED ManagerRest

ManagerSpawn == \E started \in BOOLEAN : _spawn_runner(started)

ChildExit == \E i \in 1..MaxSpawns : child_exit(i)

ManagerNext ==
    \/ manager_main
    \/ mp_prune
    \/ mp_test
    \/ ManagerSpawn
    \/ manager_sleep
    \/ ChildExit

ManagerSpec == Init /\ [][ManagerNext]_vars

\* the manager's own steps are taken; children need not exit
ManagerFairSpec ==
    /\ ManagerSpec
    /\ WF_vars(manager_main) /\ WF_vars(mp_prune) /\ WF_vars(mp_test)
    /\ WF_vars(ManagerSpawn) /\ WF_vars(manager_sleep)

(***************************************************************************)
(* ShutdownSpec: serve, dispatcher.py:250-285, with the loop conditions    *)
(* "while not server.dead" of runner_checker and redistribute.  In the     *)
(* other specifications the server is running and the flag is False.       *)
(***************************************************************************)
\* what the shutdown steps leave unchanged
ShutdownRest ==
    <<dispVars, checker, redis, sent, runner_up, busy, worker, rthreads,
      observer, manager>>

\* KeyboardInterrupt in serve: server.dead = True and server.shutdown()
serve_interrupt ==
    /\ ~server.dead
    /\ server' = [server EXCEPT !.dead = TRUE]
    /\ NoReply
    /\ UNCHANGED ShutdownRest

\* runner_checker finds server.dead at its loop condition and returns
rc_return ==
    /\ server.dead
    /\ ~server.checker_ended
    /\ checker.pc = "sleep"
    /\ server' = [server EXCEPT !.checker_ended = TRUE]
    /\ NoReply
    /\ UNCHANGED ShutdownRest

\* redistribute finds server.dead at its loop condition and returns; the
\* condition is tested between two batches only
rd_return ==
    /\ server.dead
    /\ ~server.redistributor_ended
    /\ dt[Redis].pc = "off"
    /\ redis = <<>>
    /\ server' = [server EXCEPT !.redistributor_ended = TRUE]
    /\ NoReply
    /\ UNCHANGED ShutdownRest

\* serve_forever accepts requests until server.shutdown()
ShutRequest == ~server.dead /\ Request

\* the next round of runner_checker: the loop condition held
ShutCheckerSnapshot == ~server.dead /\ CheckerSnapshot

\* the next batch of redistribute: the loop condition held
ShutRedisDrain == ~server.dead /\ RedisDrain

ShutdownNext ==
    \/ ShutRequest
    \/ DispatchSnapshot
    \/ DispatchTry
    \/ DispatchRecord
    \/ ShutCheckerSnapshot
    \/ CheckerPing
    \/ CheckerRequeue
    \/ ShutRedisDrain
    \/ RedisNext
    \/ PeerDown
    \/ serve_interrupt
    \/ rc_return
    \/ rd_return

ShutdownSpec == Init /\ [][ShutdownNext]_vars

\* the dispatcher's threads take their steps; clients, peers and the
\* interrupt are free
ShutdownFairSpec ==
    /\ ShutdownSpec
    /\ WF_vars(DispatchSnapshot) /\ WF_vars(DispatchTry)
    /\ WF_vars(DispatchRecord)
    /\ WF_vars(ShutCheckerSnapshot) /\ WF_vars(CheckerPing)
    /\ WF_vars(CheckerRequeue)
    /\ WF_vars(ShutRedisDrain) /\ WF_vars(RedisNext)
    /\ WF_vars(rc_return) /\ WF_vars(rd_return)

(***************************************************************************)
(* Properties of the handlers on malformed and broken requests.            *)
(***************************************************************************)
\* the peer of handler h has closed the connection and the receive loop
\* still wants data
ClosedShort(h) ==
    /\ handlers[h].pc = "results_recv"
    /\ handlers[h].wire = <<EOF>>

\* C11 as stated: a handler whose upload was cut short by the peer closing
\* the connection ends the request.
C11_ShortUploadFails ==
    \A h \in Handlers : ClosedShort(h) ~> (handlers[h].pc = "idle")

\* the request a reply answers has a missing or malformed argument, or a
\* command the dispatcher does not know
Malformed(command, argument) ==
    \/ command \notin {CmdStatus, CmdRegister, CmdDispatch, CmdResults}
    \/ /\ command = CmdRegister
       /\ \/ argument = None
          \/ Len(splitAll(argument)) # 2
          \/ ~int(splitAll(argument)[2]).ok
    \/ /\ command = CmdDispatch
       /\ (argument = None \/ argument = <<>>)
    \/ /\ command = CmdResults
       /\ \/ argument = None
          \/ Len(split(argument, 2)) < 3
          \/ ~int(split(argument, 2)[2]).ok

\* the step is one of handle(): a reply is sent and no handler that was
\* past the parsing of a results upload has moved
HandleStep ==
    /\ reply' # Silence
    /\ \A h \in Handlers :
          handlers[h].pc \in ResultsPcs \cup {"results_recv"} =>
              handlers'[h] = handlers[h]

\* C12 as stated: a request with a malformed or missing argument, or with
\* an unknown command, is answered with an error string (not OK) and the
\* registry, the assignment table, the pending queue and the result store
\* stay as they were.
C12_ProtocolErrorsKeepState ==
    [][(HandleStep /\ Malformed(reply'.command, reply'.argument)) =>
          /\ reply'.text # "OK"
          /\ UNCHANGED <<registered_runners, dispatched_commits,
                         pending_commits, result_files>>]_vars


(***************************************************************************)
(* Properties of the runner's request handler.                             *)
(***************************************************************************)
\* C13: the runner's reply on the wire is exactly "pong" for ping, exactly
\* "OK" or "BUSY" for runtest:<commit>, and exactly "Unknown command" for
\* any other command.
C13_BareReplies ==
    reply # Silence =>
        IF reply.command = PingMessage THEN reply.text = "pong"
        ELSE IF reply.command = CmdRuntest THEN reply.text \in {"OK", "BUSY"}
        ELSE reply.text = "Unknown command"

C15_SingleSlot == rthreads.running <= 1

(***************************************************************************)
(* Properties of the runner's report of a failed run.                      *)
(***************************************************************************)
\* C16: when the update hook or the test run fails for commit c, the runner
\* posts the captured output through the results command: once the
\* dispatcher has answered the report, a result file for c is stored and c
\* is not in the assignment table.
C16_ErrorsDeliveredAsResults ==
    [][\A p \in Ports :
          /\ worker_done(p)
          /\ worker[p].error
          => /\ worker[p].commit \in DOMAIN result_files'
             /\ worker[p].commit \notin DictKeys(dispatched_commits')]_vars

(***************************************************************************)
(* Properties of a repeated dispatch of one commit.                        *)
(***************************************************************************)
\* the entries of the assignment table for commit c
TableEntries(c) ==
    {i \in 1..Len(dispatched_commits) : dispatched_commits[i][1] = c}

\* the result files stored for commit c
FilesOf(c) == {n \in DOMAIN result_files : n = c}

InFlight(c) == {t \in DTThreads : dt[t].pc # "off" /\ dt[t].commit = c}

\* C18: a commit id is in at most one of: in flight inside a running
\* dispatch_tests invocation, in the assignment table, in the pending
\* queue; and no two dispatch_tests invocations run for one commit id.
C18_OnePlace ==
    \A c \in Commits :
        /\ Cardinality(InFlight(c)) <= 1
        /\ ~(InFlight(c) # {} /\ Assigned(c))
        /\ ~(InFlight(c) # {} /\ Pending(c))
        /\ ~(Assigned(c) /\ Pending(c))

(***************************************************************************)
(* Properties of the repository observer.                                  *)
(***************************************************************************)
\* C19: the .commit_id file is deleted only in the step in which the
\* dispatcher replied "OK" to dispatch:<commit> for the commit it contains;
\* when the status check or the dispatch fails or is refused, the file is
\* still present afterwards.
C19_SentinelOrdering ==
    [][/\ (observer.sentinel # None /\ observer'.sentinel = None)
          => /\ observer.pc = "dispatch"
             /\ reply'.command = CmdDispatch
             /\ reply'.argument = strip(observer.sentinel)
             /\ reply'.text = "OK"
       /\ (observer.pc \in {"status", "dispatch"} /\ observer'.pc = "dead")
          => /\ observer.sentinel # None
             /\ observer'.sentinel = observer.sentinel]_vars

\* the dispatcher has answered "OK" to the observer's dispatch request and
\* the file is gone
C19_Witness ==
    /\ observer.pc = "sleep"
    /\ observer.sentinel = None
    /\ reply.command = CmdDispatch
    /\ reply.text = "OK"
    /\ \E h \in Handlers : handlers[h].pc = "dispatch_tests"

\* C20: when the dispatcher is out of reach or answers something other than
\* "OK" to status or dispatch, the observer gives up the cycle only: it
\* goes on to the sleep before its next poll.
C20_ObserverRetries ==
    [][(observer.pc \in {"status", "dispatch"} /\ observer'.pc # observer.pc)
          => observer'.pc \in {"dispatch", "sleep"}]_vars

(***************************************************************************)
(* Properties of the assignment procedure, dispatch_tests.                 *)
(***************************************************************************)
\* what a runner, or the transport, can return to a runtest request
AnyRuntestAnswer == {"OK", "BUSY", "OK:OK", "OK:BUSY", CommError}

\* C23: an entry c -> R is written to the assignment table only by a
\* dispatch_tests call for c to which R has replied "OK"; a runner that
\* replied BUSY or anything else, or failed at transport level, is never
\* recorded.
C23_RecordOnlyAfterOK ==
    [][/\ \A t \in DTThreads, response \in AnyRuntestAnswer :
             (dt_try(t, response) /\ dt'[t].pc = "record")
                 => /\ response = "OK"
                    /\ dt'[t].runner = Head(dt[t].avail)
       /\ \A c \in DictKeys(dispatched_commits') :
             (\/ c \notin DictKeys(dispatched_commits)
              \/ DictValue(dispatched_commits, c)
                     # DictValue(dispatched_commits', c))
                 => \E t \in DTThreads :
                       /\ dt[t].pc = "record"
                       /\ dt[t].commit = c
                       /\ dt[t].runner = DictValue(dispatched_commits', c)]_vars

\* a commit is assigned to a runner that is not the first of the registry:
\* an earlier runner refused or failed
C23_Witness ==
    \E c \in Commits :
        /\ Assigned(c)
        /\ Len(registered_runners) = 2
        /\ DictValue(dispatched_commits, c) = registered_runners[2]

\* The dispatcher's side of C24: one dispatch_tests call for c takes the
\* registry as its snapshot, contacts the runners of the snapshot from its
\* head on, one by one, records the first whose answer is "OK" and
\* returns.
FirstAcceptingRunner ==
    [][\A t \in DTThreads :
          /\ (dt[t].pc = "snapshot" /\ dt'[t].pc = "try")
                => dt'[t].avail = registered_runners
          /\ (dt[t].pc = "try" /\ dt'[t] # dt[t])
                => \/ /\ dt'[t].pc = "record"
                      /\ dt'[t].runner = Head(dt[t].avail)
                   \/ /\ dt'[t].pc = "try"
                      /\ dt'[t].avail = Tail(dt[t].avail)
                   \/ /\ dt'[t].pc = "snapshot"
                      /\ Tail(dt[t].avail) = <<>>
          /\ (dt[t].pc = "record" /\ dt'[t] # dt[t])
                => /\ dt'[t].pc = "off"
                   /\ dt[t].commit \in DictKeys(dispatched_commits')
                   /\ DictValue(dispatched_commits', dt[t].commit)
                          = dt[t].runner]_vars

\* the first runner of a snapshot of two did not answer "OK", the second
\* did, and the call is about to record it and return
FirstAcceptingRunner_Witness ==
    \E t \in DTThreads :
        /\ dt[t].pc = "record"
        /\ Len(dt[t].avail) = 1
        /\ Len(registered_runners) = 2
        /\ dt[t].runner = registered_runners[2]

\* C24: one dispatch_tests call for c records the first runner that
\* accepts and sends runtest:c to no further runner after an acceptance:
\* when the runner contacted in a step takes the run, the call goes on to
\* record it.
C24_OneAcceptance ==
    [][\A t \in DTThreads, p \in Ports :
          (/\ dt[t].pc = "try"
           /\ dt'[t] # dt[t]
           /\ Head(dt[t].avail).port = p
           /\ ~busy[p]
           /\ busy'[p])
              => dt'[t].pc = "record"]_vars

\* C25: when dispatch:c was answered "OK" and no runner accepts c on the
\* handler's first pass over the registry, c is in the pending queue at the
\* end of the pass.
C25_PendingAfterFirstPass ==
    [][\A t \in Handlers :
          (dt[t].pc = "try" /\ dt'[t].pc = "snapshot")
              => dt[t].commit \in Elems(pending_commits')]_vars

(***************************************************************************)
(* Properties of the runners in the whole system.                          *)
(***************************************************************************)
\* C26: after every accepted runtest the runner's busy flag is eventually
\* reset to false, whether the update hook, the test run or the upload of
\* the result succeeds or fails.
C26_BusyEventuallyReset ==
    \A p \in Ports : busy[p] ~> ~busy[p]

\* C27: a registered runner that is alive and answers the ping through its
\* own handler is not taken out of the registry by the health monitor.
C27_LiveRunnerStaysRegistered ==
    [][\A i \in 1..Len(registered_runners) :
          (/\ registered_runners[i].port \in Ports
           /\ runner_up[registered_runners[i].port]
           /\ runner_up'[registered_runners[i].port])
              => registered_runners[i] \in Elems(registered_runners')]_vars

(***************************************************************************)
(* Properties of dispatch_tests interleaved with remove_runner.            *)
(***************************************************************************)
\* no dispatch_tests call and no health round is under way
Quiescent ==
    /\ \A t \in DTThreads : dt[t].pc = "off"
    /\ checker.pc = "sleep"

\* C28: once the assignment procedure and the health monitor's eviction
\* have both finished, every runner that an entry of the assignment table
\* refers to is in the registry.
C28_NoOrphanedAssignment ==
    Quiescent =>
        \A i \in 1..Len(dispatched_commits) :
            dispatched_commits[i][2] \in Elems(registered_runners)

\* the live runners whose _execute_test_run thread is working on commit c
Executing(c) ==
    {p \in Ports : runner_up[p] /\ worker[p].pc # "none" /\ worker[p].commit = c}

\* C29: at any time at most one live runner is executing a given commit
\* id.
C29_AtMostOneExecution ==
    \A c \in Commits : Cardinality(Executing(c)) <= 1

(***************************************************************************)
(* Properties of the runner manager.                                       *)
(***************************************************************************)
\* C21: every maintain_pool call returns, also when a spawn attempt fails.
C21_MaintainPoolTerminates ==
    (manager.pc = "test") ~> (manager.pc = "sleep")

(***************************************************************************)
(* Properties of the dispatcher's shutdown.                                *)
(***************************************************************************)
\* C22: once server.dead is set, the health-monitor loop and the
\* redistributor loop each eventually return.
C22_LoopsTerminate ==
    server.dead ~> (server.checker_ended /\ server.redistributor_ended)

\* the health monitor's half of C22
CheckerTerminates == server.dead ~> server.checker_ended

====
